---- MODULE Spec2Model ----
(***************************************************************************)
(* The TCP peer bootstrap server of src/app.js as a state machine.         *)
(*                                                                         *)
(* State: the three global tables (peerRecord, clientRecord, banList), the *)
(* global request counter, the wall clock read by Date.now(), and one      *)
(* record per live socket holding what the connection handler's closure    *)
(* holds (ip, now, dataBuffer), the socket's own state, and the position   *)
(* of every pending async "data" handler of that socket.                   *)
(* A log file and the log store are followed where appendLog itself is     *)
(* examined (SpecLog); elsewhere the appendLog calls made for a connection *)
(* are counted in its socket record.                                       *)
(*                                                                         *)
(* Time is in milliseconds.  Timers (the socket's idle timer, the flood    *)
(* delay, the geo request timeout) carry their deadline; time never passes *)
(* a deadline that has not been served.  The two setInterval callbacks     *)
(* (counter reset, stale sweep) may run at any instant.                    *)
(***************************************************************************)
EXTENDS Integers, Sequences, FiniteSets, TLC

VARIABLES
    clock,                \* Date.now()
    peerRecord,           \* app.js:63   ip -> [geo, firstSeen, lastSeen]
    clientRecord,         \* app.js:64   ip -> sequence of timestamps
    banList,              \* app.js:65   ip -> ban expiration
    globalRequestCount,   \* app.js:127
    socks,                \* slot -> the socket and handler closure of a connection
    swept,                \* history: the last sweep run and the peers it logged as removed
    ticks,                \* history: time advances so far (bounds the behaviours)
    logFile               \* a log file and the log store, as appendLog leaves them

vars == <<clock, peerRecord, clientRecord, banList, globalRequestCount, socks,
          swept, ticks, logFile>>

(***************************************************************************)
(* Program constants                                                       *)
(***************************************************************************)
LOG_THRESHOLD == 10485760
RATE_LIMIT == 5
WINDOW_MS == 60000
MAX_CONN_PER_SECOND == 100
FLOOD_DELAY == 2000
RESPONSE_PEER_LIMIT == 20
PEER_TIMEOUT_MS == 300000
IDLE_TIMEOUT_MS == 5000
GEO_TIMEOUT_MS == 3000
MAX_PAYLOAD == 2048
RESET_MS == 1000
BAN_THRESHOLD_FACTOR == 3
BAN_WINDOWS == 10

SUCCESS_REGISTER == 1000
SUCCESS_UNREGISTER == 1001
SUCCESS_HEARTBEAT == 1002
ERROR_UNKNOWN_ACTION == 2000
ERROR_INVALID_JSON == 2001
ERROR_RATE_LIMIT == 2002
ERROR_GLOBAL_DOS == 2003
ERROR_PAYLOAD_TOO_LARGE == 2004
ERROR_IDLE_TIMEOUT == 2005
ERROR_GEO_LOOKUP_FAILED == 2006

(***************************************************************************)
(* Bounds of the model                                                     *)
(***************************************************************************)
MaxSocks == 2        \* sockets alive at once (server.maxConnections, scaled)
MaxChunks == 2       \* "data" events delivered on one socket
MaxTicks == 4        \* time advances in one behaviour of Spec
MaxRegTicks == 3     \* time advances in one behaviour of SpecRegistry
MaxWindow == 2       \* Spec: stored window length at which a source stops connecting
MaxRegConns == 3     \* SpecRegistry: stored timestamps at which sources stop connecting
MaxAdmTicks == 3     \* time advances in one behaviour of SpecAdmission
MaxPeers == 22       \* SpecRanking: records of other sources in the registry
MaxRuns == 2         \* SpecRanking: stretches of equal coordinates among them
MaxAppends == 6      \* SpecLog: appendLog calls in one behaviour
MaxRankTicks == 2    \* time advances in one behaviour of SpecRanking
MaxLiveTicks == 12    \* time advances in one behaviour of SpecLive
MaxDataTicks == 1    \* SpecLive: time advances after which clients send no more
WindowSlack == 2     \* SpecAdmission: attempts of a source beyond the ban threshold

(***************************************************************************)
(* Values                                                                  *)
(***************************************************************************)
\* sock.remoteAddress: dotted quads as tuples of octets; NoIP is `undefined'.
NoIP == <<>>
PublicA == <<1, 2, 3, 4>>
PrivateC == <<10, 0, 0, 5>>
IPS == {PublicA, PrivateC}

\* An absent banList entry: `undefined > now' is false, as is -1 > now.
NoBan == -1
\* No timer armed.
NoTimer == -1

Min(S) == CHOOSE x \in S : \A y \in S : x <= y

isPrivateIP(ip) ==
    /\ ip # NoIP
    /\ \/ ip[1] = 127
       \/ (ip[1] = 192 /\ ip[2] = 168)
       \/ ip[1] = 10
       \/ ip[1] = 172

(***************************************************************************)
(* Geo lookup answers and the haversine distance                           *)
(***************************************************************************)
\* res.data of ipapi.co for a public address (whole degrees); GeoError is a
\* rejected or timed-out request.  A zero latitude is falsy at app.js:158.
GeoAnswers ==
    { [latitude |-> 10, longitude |-> 10],
      [latitude |-> 0, longitude |-> 30] }
GeoError == [latitude |-> -1, longitude |-> -1]
DummyGeo == [latitude |-> 0, longitude |-> 0]
NoGeo == [latitude |-> -2, longitude |-> -2]     \* null

\* Fixed point, three decimals: toRad, and sin^2 / cos by their series.
toRad(x) == (x * 17453) \div 1000
Sq(x) == (x * x) \div 1000
Sin(x) == x - (Sq(x) * x) \div 6000 + (Sq(Sq(x)) * x) \div 120000
Cos(x) == 1000 - Sq(x) \div 2 + Sq(Sq(x)) \div 24
Abs(x) == IF x < 0 THEN -x ELSE x

\* app.js:173-185.  R * 2 * atan2(sqrt(aa), sqrt(1 - aa)) increases strictly
\* with aa on [0, 1], so the sort at app.js:317 orders by aa; distance is aa.
distance(a, b) ==
    LET dLat == toRad(Abs(b.latitude - a.latitude))
        dLon == toRad(Abs(b.longitude - a.longitude))
    IN  Sq(Sin(dLat \div 2))
          + (((Cos(toRad(a.latitude)) * Cos(toRad(b.latitude))) \div 1000)
               * Sq(Sin(dLon \div 2))) \div 1000

(***************************************************************************)
(* Tables                                                                  *)
(***************************************************************************)
\* peerRecord is a JavaScript object: its entries keep the order in which the
\* keys were first added (Object.entries, app.js:192 and app.js:310).  It is
\* kept as the sequence of its entries [ip, geo, firstSeen, lastSeen].
Keys(table) == {table[j].ip : j \in 1 .. Len(table)}
Has(table, k) == k \in Keys(table)
Get(table, k) == table[CHOOSE j \in 1 .. Len(table) : table[j].ip = k]
\* table[k] = v: in place when the key is there, at the end when it is not.
Put(table, k, v) ==
    IF Has(table, k)
    THEN [j \in 1 .. Len(table) |-> IF table[j].ip = k THEN v ELSE table[j]]
    ELSE Append(table, v)
\* delete table[k]
Delete(table, k) == SelectSeq(table, LAMBDA e : e.ip # k)

\* peers.sort((a, b) => distance(a, geo) - distance(b, geo)): the sort is
\* stable, entries at the same distance keep their order (app.js:317).
RECURSIVE SortByDistance(_, _)
SortByDistance(seq, geo) ==
    IF seq = <<>> THEN <<>>
    ELSE LET last == seq[Len(seq)]
             init == SortByDistance(SubSeq(seq, 1, Len(seq) - 1), geo)
             n == Cardinality({j \in 1 .. Len(init) :
                                 distance(init[j], geo) <= distance(last, geo)})
         IN  SubSeq(init, 1, n) \o <<last>> \o SubSeq(init, n + 1, Len(init))

(***************************************************************************)
(* Sockets                                                                 *)
(***************************************************************************)
Slots == 1 .. MaxSocks

\* state: "free" (no connection), "open", "ended" (sock.end() was called and
\* the client has not closed yet), "destroyed".  listening: the "timeout" and
\* "data" listeners are attached and the idle timeout is set (app.js:253-267).
\* idleAt: when the idle timer fires.  dataLen, dataMsg: the length of
\* dataBuffer and what JSON.parse(dataBuffer.trim()) makes of it.  handlers:
\* the pending "data" handlers, each at its await ("delay": app.js:282,
\* "geo": app.js:154) with the time the awaited timer runs out.  geo: what
\* the latest getGeo call of a handler returned (app.js:291).  written: the
\* responses sent.  lateWrites: the sock.write calls made after sock.end(),
\* which send nothing.  lastWrite: the body of the latest sock.write call.
\* logged: the appendLog calls made for this connection.  dispatched: the
\* register, unregister and heartbeat actions applied for this connection.
\* app.js:112-122, without the info header.
NoExtra == [yourIP |-> NoIP, peers |-> <<>>]
buildResponse(code, extraBody) ==
    [statusCode |-> code, yourIP |-> extraBody.yourIP, peers |-> extraBody.peers]
NoResponse == buildResponse(0, NoExtra)

FreeSock ==
    [ state |-> "free", ip |-> NoIP, now |-> 0, listening |-> FALSE,
      idleAt |-> NoTimer, dataLen |-> 0, dataMsg |-> "", chunks |-> 0,
      handlers |-> <<>>, geo |-> NoGeo, written |-> 0, lateWrites |-> 0,
      lastWrite |-> NoResponse, logged |-> 0, dispatched |-> 0 ]

\* The socket of a new connection (app.js:206-208).
NewSock(ip, now) == [FreeSock EXCEPT !.state = "open", !.ip = ip, !.now = now]

\* sock.setTimeout(5000); sock.on("timeout"); sock.on("data")  (app.js:253-267)
Listen(sk, now) == [sk EXCEPT !.listening = TRUE, !.idleAt = now + IDLE_TIMEOUT_MS]

\* appendLog(file, msg), n times, on behalf of the connection.
Log(sk, n) == [sk EXCEPT !.logged = @ + n]

\* A slot is reusable when its socket is gone and no handler of it is pending.
IsFree(sk) == sk.state \in {"free", "destroyed"} /\ sk.handlers = <<>>

\* sock.write(buildResponse(statusObj, extraBody)).  On a socket that was
\* ended the write fails (ERR_STREAM_WRITE_AFTER_END): nothing is sent and the
\* socket is destroyed with that error, which the "error" listener logs
\* (app.js:361-366).  A write that goes out restarts the idle timer of a
\* socket that has one.
Write(sk, body) ==
    IF sk.state = "open"
    THEN [sk EXCEPT !.written = @ + 1, !.lastWrite = body,
                    !.idleAt = IF sk.listening THEN clock + IDLE_TIMEOUT_MS
                               ELSE NoTimer]
    ELSE [sk EXCEPT !.lateWrites = @ + 1, !.lastWrite = body,
                    !.state = "destroyed", !.idleAt = NoTimer,
                    !.logged = IF sk.listening THEN @ + 1 ELSE @]

\* Mutant of End: the socket is left open.
EndNothing(sk) == sk

\* sock.end()
End(sk) == IF sk.state = "open" THEN [sk EXCEPT !.state = "ended"] ELSE sk

\* sock.write(buildResponse(status)); sock.end()
Respond(sk, code) == End(Write(sk, buildResponse(code, NoExtra)))

(***************************************************************************)
(* Guard chain (app.js:206-250)                                            *)
(***************************************************************************)
\* app.js:211
Banned(ip, now) == ip = NoIP \/ banList[ip] > now

\* Mutant of GlobalDoS: rejects at the limit itself.
GlobalDoSAtLimit(count) == count >= MAX_CONN_PER_SECOND

\* app.js:218
GlobalDoS(count) == count > MAX_CONN_PER_SECOND

\* Mutant of WindowFilter: keeps the entry that is exactly a window old.
WindowFilterInclusive(win, now) == SelectSeq(win, LAMBDA ts : now - ts <= WINDOW_MS)

\* app.js:230
WindowFilter(win, now) == SelectSeq(win, LAMBDA ts : now - ts < WINDOW_MS)

\* Mutant of RateLimited: admits one request more.
RateLimitedOneMore(win) == Len(win) > RATE_LIMIT

\* app.js:231
RateLimited(win) == Len(win) >= RATE_LIMIT

\* app.js:244
AutoBan(win) == Len(win) > RATE_LIMIT * BAN_THRESHOLD_FACTOR

\* Mutant of Connect: the window is pruned before the global guard.
ConnectPruneFirst(ip) ==
    LET now == clock
        sk == NewSock(ip, now)
        free == {s \in Slots : IsFree(socks[s])}
        s == Min(free)
    IN
    /\ free # {}
    /\ IF Banned(ip, now)
       THEN /\ socks' = [socks EXCEPT ![s] = End(sk)]
            /\ UNCHANGED <<clientRecord, banList, globalRequestCount>>
       ELSE
         LET count == globalRequestCount + 1
             win == WindowFilter(clientRecord[ip], now)
         IN
         /\ globalRequestCount' = count
         /\ IF GlobalDoS(count)
            THEN /\ socks' = [socks EXCEPT ![s] = Respond(Log(sk, 1), ERROR_GLOBAL_DOS)]
                 /\ clientRecord' = [clientRecord EXCEPT ![ip] = win]
                 /\ UNCHANGED banList
            ELSE
              IF RateLimited(win)
              THEN /\ socks' = [socks EXCEPT ![s] = Respond(Log(sk, 1), ERROR_RATE_LIMIT)]
                   /\ clientRecord' = [clientRecord EXCEPT ![ip] = Append(win, now)]
                   /\ UNCHANGED banList
              ELSE
                /\ clientRecord' = [clientRecord EXCEPT ![ip] = Append(win, now)]
                /\ banList' = IF AutoBan(Append(win, now))
                              THEN [banList EXCEPT ![ip] = now + WINDOW_MS * BAN_WINDOWS]
                              ELSE banList
                /\ socks' = [socks EXCEPT ![s] =
                                Listen(Log(sk, IF AutoBan(Append(win, now)) THEN 1 ELSE 0),
                                       now)]
    /\ UNCHANGED <<clock, peerRecord, swept, ticks, logFile>>

\* net.createServer((sock) => ...) up to the listeners (app.js:206-267), for a
\* connection from ip; its socket takes the first free slot.
Connect(ip) ==
    LET now == clock
        sk == NewSock(ip, now)
        free == {s \in Slots : IsFree(socks[s])}
        s == Min(free)
    IN
    /\ free # {}
    /\ IF Banned(ip, now)
       THEN /\ socks' = [socks EXCEPT ![s] = End(sk)]
            /\ UNCHANGED <<clientRecord, banList, globalRequestCount>>
       ELSE
         LET count == globalRequestCount + 1 IN
         /\ globalRequestCount' = count
         /\ IF GlobalDoS(count)
            THEN /\ socks' = [socks EXCEPT ![s] = Respond(Log(sk, 1), ERROR_GLOBAL_DOS)]
                 /\ UNCHANGED <<clientRecord, banList>>
            ELSE
              LET win == WindowFilter(clientRecord[ip], now) IN
              IF RateLimited(win)
              THEN /\ socks' = [socks EXCEPT ![s] = Respond(Log(sk, 1), ERROR_RATE_LIMIT)]
                   /\ clientRecord' = [clientRecord EXCEPT ![ip] = Append(win, now)]
                   /\ UNCHANGED banList
              ELSE
                /\ clientRecord' = [clientRecord EXCEPT ![ip] = Append(win, now)]
                /\ banList' = IF AutoBan(Append(win, now))
                              THEN [banList EXCEPT ![ip] = now + WINDOW_MS * BAN_WINDOWS]
                              ELSE banList
                /\ socks' = [socks EXCEPT ![s] =
                                Listen(Log(sk, IF AutoBan(Append(win, now)) THEN 1 ELSE 0),
                                       now)]
    /\ UNCHANGED <<clock, peerRecord, swept, ticks, logFile>>

\* The connection handler run for k connections in a row from sources outside
\* IPS, none of them banned: of the state kept here they change the global
\* counter only (app.js:217); their windows and sockets are not kept.
ConnectOthers(k) ==
    /\ globalRequestCount' = globalRequestCount + k
    /\ UNCHANGED <<clock, peerRecord, clientRecord, banList, socks, swept, ticks,
                   logFile>>

\* setInterval(() => { globalRequestCount = 0 }, 1000)   (app.js:128-130)
ResetGlobal ==
    /\ globalRequestCount' = 0
    /\ UNCHANGED <<clock, peerRecord, clientRecord, banList, socks, swept, ticks,
                   logFile>>

(***************************************************************************)
(* Socket events (app.js:255-359)                                          *)
(***************************************************************************)
Live(sk) == sk.state \in {"open", "ended"}

\* app.js:271
Oversized(len) == len > MAX_PAYLOAD

RemoveAt(seq, i) == [j \in 1 .. (Len(seq) - 1) |-> IF j < i THEN seq[j] ELSE seq[j + 1]]

\* Mutant of SockTimeout: the sock.end() of app.js:261 is missing.
SockTimeoutNoEnd(s) ==
    LET sk == socks[s] IN
    /\ Live(sk) /\ sk.listening
    /\ sk.idleAt # NoTimer /\ clock >= sk.idleAt
    /\ socks' = [socks EXCEPT ![s] =
                    Write(Log([sk EXCEPT !.idleAt = NoTimer], 1),
                          buildResponse(ERROR_IDLE_TIMEOUT, NoExtra))]
    /\ UNCHANGED <<clock, peerRecord, clientRecord, banList, globalRequestCount,
                   swept, ticks, logFile>>

\* sock.on("timeout", ...)   (app.js:255-262); the timer that fired is spent.
SockTimeout(s) ==
    LET sk == socks[s] IN
    /\ Live(sk) /\ sk.listening
    /\ sk.idleAt # NoTimer /\ clock >= sk.idleAt
    /\ socks' = [socks EXCEPT ![s] =
                    Respond(Log([sk EXCEPT !.idleAt = NoTimer], 1), ERROR_IDLE_TIMEOUT)]
    /\ UNCHANGED <<clock, peerRecord, clientRecord, banList, globalRequestCount,
                   swept, ticks, logFile>>

\* sock.on("data", async (data) => ...) up to its await (app.js:267-282): a
\* chunk of n characters arrives, after which the buffer parses as msg.
Data(s, n, msg) ==
    LET sk == socks[s]
        buf == [sk EXCEPT !.dataLen = @ + n, !.dataMsg = msg, !.chunks = @ + 1,
                          !.idleAt = clock + IDLE_TIMEOUT_MS]
    IN
    /\ Live(sk) /\ sk.listening
    /\ socks' = [socks EXCEPT ![s] =
                    IF Oversized(buf.dataLen)
                    THEN Respond(Log(buf, 1), ERROR_PAYLOAD_TOO_LARGE)
                    ELSE [buf EXCEPT !.handlers =
                             Append(@, [pc |-> "delay", at |-> clock + FLOOD_DELAY])]]
    /\ UNCHANGED <<clock, peerRecord, clientRecord, banList, globalRequestCount,
                   swept, ticks, logFile>>

\* The client closes its side after the server ended the socket: the socket is
\* destroyed, its timer cleared; handlers still pending keep their closure.
ClientClose(s) ==
    LET sk == socks[s] IN
    /\ sk.state = "ended"
    /\ socks' = [socks EXCEPT ![s] =
                    IF sk.handlers = <<>> THEN FreeSock
                    ELSE [sk EXCEPT !.state = "destroyed", !.idleAt = NoTimer]]
    /\ UNCHANGED <<clock, peerRecord, clientRecord, banList, globalRequestCount,
                   swept, ticks, logFile>>

(***************************************************************************)
(* Actions of a payload (app.js:284-359)                                   *)
(***************************************************************************)
\* getGeo(ip), given what the axios request does (app.js:148-168).
getGeo(ip, answer) ==
    IF isPrivateIP(ip) THEN DummyGeo
    ELSE IF answer # GeoError /\ answer.latitude # 0 /\ answer.longitude # 0
         THEN [latitude |-> answer.latitude, longitude |-> answer.longitude]
         ELSE NoGeo

\* Mutant of SendPeers: the list is cut to the limit before it is sorted.
SendPeersSliceFirst(table, geo) ==
    LET peers == SelectSeq(
                   [j \in 1 .. Len(table) |->
                      [ip |-> table[j].ip, latitude |-> table[j].geo.latitude,
                       longitude |-> table[j].geo.longitude]],
                   LAMBDA v : v.latitude # 0 /\ v.longitude # 0)
        cut == SubSeq(peers, 1, IF Len(peers) < RESPONSE_PEER_LIMIT THEN Len(peers)
                                ELSE RESPONSE_PEER_LIMIT)
    IN  SortByDistance(cut, geo)

\* app.js:310-320
SendPeers(table, geo) ==
    LET peers == SelectSeq(
                   [j \in 1 .. Len(table) |->
                      [ip |-> table[j].ip, latitude |-> table[j].geo.latitude,
                       longitude |-> table[j].geo.longitude]],
                   LAMBDA v : v.latitude # 0 /\ v.longitude # 0)
        sorted == SortByDistance(peers, geo)
    IN  SubSeq(sorted, 1, IF Len(sorted) < RESPONSE_PEER_LIMIT THEN Len(sorted)
                          ELSE RESPONSE_PEER_LIMIT)

\* The handler at position i of socket s has returned.
Finish(sk, i) == [sk EXCEPT !.handlers = RemoveAt(@, i)]

\* The appendLog call in the catch of getGeo (app.js:159-166): one line when
\* the request fails, none when the answer lacks a usable coordinate.
getGeoLogs(ip, answer) == IF ~isPrivateIP(ip) /\ answer = GeoError THEN 1 ELSE 0

\* An action was applied for the connection.
Dispatch(sk) == [sk EXCEPT !.dispatched = @ + 1]

\* Mutant of RegisterGeo: the record is stored before geo is tested.
RegisterGeoStoreFirst(s, i, geo, lines) ==
    LET sk == Log([Finish(socks[s], i) EXCEPT !.geo = geo], lines)
        table == Put(peerRecord, sk.ip,
                     [ip |-> sk.ip, geo |-> geo,
                      firstSeen |-> sk.now, lastSeen |-> sk.now])
        body == buildResponse(SUCCESS_REGISTER,
                   [yourIP |-> sk.ip, peers |-> SendPeers(table, geo)])
    IN
    /\ peerRecord' = table
    /\ socks' = [socks EXCEPT ![s] =
                    IF geo # NoGeo THEN End(Write(Log(Dispatch(sk), 1), body))
                    ELSE Respond(sk, ERROR_GEO_LOOKUP_FAILED)]

\* Mutant of RegisterGeo: the firstSeen of a record that is there is kept.
RegisterGeoKeepFirstSeen(s, i, geo, lines) ==
    LET sk == Log([Finish(socks[s], i) EXCEPT !.geo = geo], lines) IN
    IF geo # NoGeo
    THEN LET first == IF Has(peerRecord, sk.ip)
                      THEN Get(peerRecord, sk.ip).firstSeen ELSE sk.now
             table == Put(peerRecord, sk.ip,
                          [ip |-> sk.ip, geo |-> geo,
                           firstSeen |-> first, lastSeen |-> sk.now])
             body == buildResponse(SUCCESS_REGISTER,
                        [yourIP |-> sk.ip, peers |-> SendPeers(table, geo)])
         IN  /\ peerRecord' = table
             /\ socks' = [socks EXCEPT ![s] = End(Write(Log(Dispatch(sk), 1), body))]
    ELSE /\ socks' = [socks EXCEPT ![s] = Respond(sk, ERROR_GEO_LOOKUP_FAILED)]
         /\ UNCHANGED peerRecord

\* app.js:291-326 and the finally at 356-358, once geo is known; lines are the
\* log lines that getGeo appended.
RegisterGeo(s, i, geo, lines) ==
    LET sk == Log([Finish(socks[s], i) EXCEPT !.geo = geo], lines) IN
    IF geo # NoGeo
    THEN LET table == Put(peerRecord, sk.ip,
                          [ip |-> sk.ip, geo |-> geo,
                           firstSeen |-> sk.now, lastSeen |-> sk.now])
             body == buildResponse(SUCCESS_REGISTER,
                        [yourIP |-> sk.ip, peers |-> SendPeers(table, geo)])
         IN  /\ peerRecord' = table
             /\ socks' = [socks EXCEPT ![s] = End(Write(Log(Dispatch(sk), 1), body))]
    ELSE /\ socks' = [socks EXCEPT ![s] = Respond(sk, ERROR_GEO_LOOKUP_FAILED)]
         /\ UNCHANGED peerRecord

\* app.js:327-335
Unregister(s, i) ==
    LET sk == Log(Dispatch(Finish(socks[s], i)),
                  IF Has(peerRecord, socks[s].ip) THEN 1 ELSE 0)
    IN
    /\ peerRecord' = IF Has(peerRecord, sk.ip) THEN Delete(peerRecord, sk.ip)
                     ELSE peerRecord
    /\ socks' = [socks EXCEPT ![s] = Respond(sk, SUCCESS_UNREGISTER)]

\* Mutant of Heartbeat: a heartbeat of an unknown source stores a record.
HeartbeatUpsert(s, i) ==
    LET sk == Log(Dispatch(Finish(socks[s], i)), 1) IN
    /\ peerRecord' = Put(peerRecord, sk.ip,
                         [ip |-> sk.ip, geo |-> DummyGeo,
                          firstSeen |-> sk.now, lastSeen |-> sk.now])
    /\ socks' = [socks EXCEPT ![s] = Respond(sk, SUCCESS_HEARTBEAT)]

\* app.js:336-344
Heartbeat(s, i) ==
    LET sk == Log(Dispatch(Finish(socks[s], i)),
                  IF Has(peerRecord, socks[s].ip) THEN 1 ELSE 0)
    IN
    /\ peerRecord' = IF Has(peerRecord, sk.ip)
                     THEN Put(peerRecord, sk.ip,
                              [Get(peerRecord, sk.ip) EXCEPT !.lastSeen = sk.now])
                     ELSE peerRecord
    /\ socks' = [socks EXCEPT ![s] = Respond(sk, SUCCESS_HEARTBEAT)]

\* The flood delay of handler i is over: it parses dataBuffer as it is now and
\* runs to its end or to the geo request (app.js:282-291, 345-358).
Wake(s, i) ==
    LET sk == socks[s]
        h == sk.handlers[i]
    IN
    /\ i \in 1 .. Len(sk.handlers)
    /\ h.pc = "delay" /\ clock >= h.at
    /\ CASE sk.dataMsg = "register" ->
              IF Has(peerRecord, sk.ip)
              THEN RegisterGeo(s, i, Get(peerRecord, sk.ip).geo, 0)
              ELSE IF isPrivateIP(sk.ip)
              THEN RegisterGeo(s, i, getGeo(sk.ip, GeoError), getGeoLogs(sk.ip, GeoError))
              ELSE /\ socks' = [socks EXCEPT ![s].handlers[i] =
                                  [pc |-> "geo", at |-> clock + GEO_TIMEOUT_MS]]
                   /\ UNCHANGED peerRecord
         [] sk.dataMsg = "unregister" -> Unregister(s, i)
         [] sk.dataMsg = "heartbeat" -> Heartbeat(s, i)
         [] sk.dataMsg = "invalid" ->
              /\ socks' = [socks EXCEPT ![s] = Respond(Log(Finish(sk, i), 1), ERROR_INVALID_JSON)]
              /\ UNCHANGED peerRecord
         [] OTHER ->
              /\ socks' = [socks EXCEPT ![s] = Respond(Finish(sk, i), ERROR_UNKNOWN_ACTION)]
              /\ UNCHANGED peerRecord
    /\ UNCHANGED <<clock, clientRecord, banList, globalRequestCount, swept, ticks,
                   logFile>>

\* The axios request of handler i settles with answer, at the latest when its
\* timeout runs out (app.js:154-167), and the handler runs to its end.
GeoReply(s, i, answer) ==
    LET sk == socks[s] IN
    /\ i \in 1 .. Len(sk.handlers)
    /\ sk.handlers[i].pc = "geo"
    /\ RegisterGeo(s, i, getGeo(sk.ip, answer), getGeoLogs(sk.ip, answer))
    /\ UNCHANGED <<clock, clientRecord, banList, globalRequestCount, swept, ticks,
                   logFile>>

(***************************************************************************)
(* Logging with rotation (app.js:101-107, db/saveLogsToDB.js:24-37)        *)
(***************************************************************************)
\* size: the characters in the local file.  stored: the characters that the
\* logs table holds.  lost: the characters that were removed from the local
\* file without being in the logs table.  appends: the appendLog calls so far.
EmptyLog == [size |-> 0, stored |-> 0, lost |-> 0, appends |-> 0]

\* saveLogsToDB(file): reads the file and inserts its content; when the read
\* or the insert throws, the catch logs to db.log and the call returns as if
\* nothing had happened.  Gives the characters stored.
saveLogsToDB(content, dbOk) == IF dbOk THEN content ELSE 0

\* appendLog(file, msg) for a msg of n characters; dbOk: whether the read and
\* the insert of saveLogsToDB go through.
appendLog(n, dbOk) ==
    LET size == logFile.size + n IN
    /\ logFile' =
          IF size > LOG_THRESHOLD
          THEN [size |-> 0,
                stored |-> logFile.stored + saveLogsToDB(size, dbOk),
                lost |-> logFile.lost + (size - saveLogsToDB(size, dbOk)),
                appends |-> logFile.appends + 1]
          ELSE [logFile EXCEPT !.size = size, !.appends = @ + 1]
    /\ UNCHANGED <<clock, peerRecord, clientRecord, banList, globalRequestCount,
                   socks, swept, ticks>>

(***************************************************************************)
(* Stale peer sweep (app.js:190-201)                                       *)
(***************************************************************************)
\* Mutant of Stale: removes the record that is exactly the timeout old.
StaleAtTimeout(info, now) == now - info.lastSeen >= PEER_TIMEOUT_MS

\* app.js:193
Stale(info, now) == now - info.lastSeen > PEER_TIMEOUT_MS

Sweep ==
    /\ peerRecord' = SelectSeq(peerRecord, LAMBDA info : ~Stale(info, clock))
    /\ swept' = [run |-> ~swept.run,
                 removed |-> {ip \in Keys(peerRecord) : Stale(Get(peerRecord, ip), clock)}]
    /\ UNCHANGED <<clock, clientRecord, banList, globalRequestCount, socks, ticks,
                   logFile>>

(***************************************************************************)
(* Time                                                                    *)
(***************************************************************************)
\* The deadlines of the armed timers.
Deadlines ==
    {socks[s].idleAt : s \in {t \in Slots : socks[t].idleAt # NoTimer}}
      \cup UNION {{socks[s].handlers[i].at : i \in 1 .. Len(socks[s].handlers)}
                    : s \in Slots}

\* Date.now() moves on by d, or to the next deadline when that comes first;
\* not while a timer that ran out has not been served.  The counter reset
\* (app.js:128-130) runs in every stretch of RESET_MS.
Tick(d, max) ==
    /\ ticks < max
    /\ \A t \in Deadlines : t > clock
    /\ clock' = Min({clock + d} \cup Deadlines)
    /\ ticks' = ticks + 1
    /\ globalRequestCount' = IF clock' - clock >= RESET_MS THEN 0
                             ELSE globalRequestCount
    /\ UNCHANGED <<peerRecord, clientRecord, banList, socks, swept, logFile>>

(***************************************************************************)
(* Specifications                                                          *)
(***************************************************************************)
Init ==
    /\ clock = 0
    /\ peerRecord = <<>>
    /\ clientRecord = [ip \in IPS |-> <<>>]
    /\ banList = [ip \in IPS |-> NoBan]
    /\ globalRequestCount = 0
    /\ socks = [s \in Slots |-> FreeSock]
    /\ swept = [run |-> FALSE, removed |-> {}]
    /\ ticks = 0
    /\ logFile = EmptyLog

\* The sockets in use.
InUse == {s \in Slots : ~IsFree(socks[s])}

\* What a client may send: chunk lengths, and what the buffer then parses as.
ChunkSizes == {1024, 2049}
Msgs == {"register", "unregister", "heartbeat", "ping", "invalid"}

\* Bursts of connections from other sources: up to the limit, or one short.
OtherBursts == {MAX_CONN_PER_SECOND - 1, MAX_CONN_PER_SECOND}

(* Spec: one connection at a time from one public source (or with no remote  *)
(* address), its payload in up to MaxChunks chunks.                          *)
SessionIPS == {PublicA, NoIP}
Steps == {IDLE_TIMEOUT_MS}

Next ==
    \/ \E ip \in SessionIPS :
          /\ InUse = {}
          /\ (IF ip = NoIP THEN TRUE ELSE Len(clientRecord[ip]) < MaxWindow)
          /\ globalRequestCount <= MAX_CONN_PER_SECOND
          /\ Connect(ip)
    \/ \E k \in OtherBursts : globalRequestCount = 0 /\ ConnectOthers(k)
    \/ \E s \in Slots, n \in ChunkSizes, msg \in Msgs :
          socks[s].chunks < MaxChunks /\ Data(s, n, msg)
    \/ \E s \in Slots : SockTimeout(s)
    \/ \E s \in Slots : ClientClose(s)
    \/ \E s \in Slots, i \in 1 .. MaxChunks : Wake(s, i)
    \/ \E s \in Slots, i \in 1 .. MaxChunks, answer \in GeoAnswers \cup {GeoError} :
          GeoReply(s, i, answer)
    \/ \E d \in Steps : Tick(d, MaxTicks)

Spec == Init /\ [][Next]_vars

(* SpecRegistry: connections side by side, each sending one action in one     *)
(* chunk, and the stale sweep.                                               *)
RegistrySteps == {PEER_TIMEOUT_MS - FLOOD_DELAY, PEER_TIMEOUT_MS}
RegistryMsgs == {"register", "unregister", "heartbeat"}
\* The timestamps stored in the rate windows.
RECURSIVE Load(_)
Load(S) == IF S = {} THEN 0
           ELSE LET ip == CHOOSE x \in S : TRUE
                IN  Len(clientRecord[ip]) + Load(S \ {ip})

NextRegistry ==
    \/ \E ip \in IPS :
          /\ Load(IPS) < MaxRegConns
          /\ Connect(ip)
    \/ \E s \in Slots, msg \in RegistryMsgs :
          socks[s].chunks < 1 /\ socks[s].state = "open" /\ Data(s, 1024, msg)
    \/ \E s \in Slots : SockTimeout(s)
    \/ \E s \in Slots : ClientClose(s)
    \/ \E s \in Slots : Wake(s, 1)
    \/ \E s \in Slots, answer \in GeoAnswers \cup {GeoError} : GeoReply(s, 1, answer)
    \/ Sweep
    \/ \E d \in RegistrySteps : Tick(d, MaxRegTicks)

SpecRegistry == Init /\ [][NextRegistry]_vars

(* SpecAdmission: the guard chain under load; clients send nothing. *)
AdmissionIPS == {PublicA, NoIP}
AdmissionSteps == {WINDOW_MS - IDLE_TIMEOUT_MS}
WindowCap == RATE_LIMIT * BAN_THRESHOLD_FACTOR + WindowSlack

NextAdmission ==
    \/ \E ip \in AdmissionIPS :
          /\ (IF ip = NoIP THEN TRUE ELSE Len(clientRecord[ip]) < WindowCap)
          /\ globalRequestCount < MAX_CONN_PER_SECOND + WindowSlack
          /\ Connect(ip)
    \/ \E k \in OtherBursts : globalRequestCount = 0 /\ ConnectOthers(k)
    \/ ResetGlobal
    \/ \E s \in Slots : SockTimeout(s)
    \/ \E s \in Slots : ClientClose(s)
    \/ \E d \in AdmissionSteps : Tick(d, MaxAdmTicks)

SpecAdmission == Init /\ [][NextAdmission]_vars

(* SpecRanking: one register session of a public source against a registry  *)
(* filled by up to MaxPeers other sources.                                   *)
RankGeos == { [latitude |-> 10, longitude |-> 10],
              [latitude |-> 20, longitude |-> 20],
              DummyGeo }

\* The address of the n-th other source: private when it has the dummy
\* coordinate of app.js:150, public otherwise.
OtherIP(n, geo) == IF geo = DummyGeo THEN <<10, 9, 9, n>> ELSE <<9, 9, 9, n>>

\* A whole register session of a source outside IPS, its socket not kept: of
\* the state kept here it adds the source's record (app.js:294-298).
RegisterOthers(geo) ==
    /\ peerRecord' = Append(peerRecord,
                            [ip |-> OtherIP(Len(peerRecord) + 1, geo), geo |-> geo,
                             firstSeen |-> clock, lastSeen |-> clock])
    /\ UNCHANGED <<clock, clientRecord, banList, globalRequestCount, socks,
                   swept, ticks, logFile>>

\* The stretches of equal coordinates in the registry.
Runs(table) ==
    Cardinality({j \in 1 .. Len(table) :
                   IF j = 1 THEN TRUE ELSE table[j].geo # table[j - 1].geo})

NextRanking ==
    \/ \E geo \in RankGeos :
          /\ clientRecord[PublicA] = <<>> /\ ticks = 0
          /\ Len(peerRecord) < MaxPeers
          /\ (IF peerRecord = <<>> THEN TRUE
              ELSE IF peerRecord[Len(peerRecord)].geo = geo THEN TRUE
              ELSE Runs(peerRecord) < MaxRuns)
          /\ RegisterOthers(geo)
    \/ clientRecord[PublicA] = <<>> /\ ticks = 0 /\ Connect(PublicA)
    \/ \E s \in Slots :
          socks[s].chunks < 1 /\ socks[s].state = "open" /\ Data(s, 1024, "register")
    \/ \E s \in Slots : SockTimeout(s)
    \/ \E s \in Slots : ClientClose(s)
    \/ \E s \in Slots : Wake(s, 1)
    \/ \E s \in Slots, answer \in GeoAnswers \cup {GeoError} : GeoReply(s, 1, answer)
    \/ \E d \in Steps : Tick(d, MaxRankTicks)

SpecRanking == Init /\ [][NextRanking]_vars

(* SpecLive: the sessions of Spec, started and fed early enough for the time *)
(* that a behaviour covers, with timers that fire, geo requests that settle  *)
(* and time that passes.                                                     *)
NextLive ==
    \/ /\ InUse = {} /\ ticks = 0
       /\ Len(clientRecord[PublicA]) < MaxWindow
       /\ Connect(PublicA)
    \/ \E s \in Slots, n \in ChunkSizes, msg \in Msgs :
          /\ socks[s].chunks < MaxChunks /\ ticks <= MaxDataTicks
          /\ Data(s, n, msg)
    \/ \E s \in Slots : SockTimeout(s)
    \/ \E s \in Slots : ClientClose(s)
    \/ \E s \in Slots, i \in 1 .. MaxChunks : Wake(s, i)
    \/ \E s \in Slots, i \in 1 .. MaxChunks, answer \in GeoAnswers \cup {GeoError} :
          GeoReply(s, i, answer)
    \/ \E d \in Steps : Tick(d, MaxLiveTicks)

SpecLive ==
    /\ Init /\ [][NextLive]_vars
    /\ WF_vars(\E s \in Slots : SockTimeout(s))
    /\ WF_vars(\E s \in Slots, i \in 1 .. MaxChunks : Wake(s, i))
    /\ WF_vars(\E s \in Slots, i \in 1 .. MaxChunks,
                  answer \in GeoAnswers \cup {GeoError} : GeoReply(s, i, answer))
    /\ WF_vars(\E d \in Steps : Tick(d, MaxLiveTicks))

(* SpecLog: appendLog on a log file that an earlier run of the server may   *)
(* have left at any size, with a log store that may fail.                    *)
LineLens == {60, 120}
FileSizes == {0, LOG_THRESHOLD - 120, LOG_THRESHOLD - 60, LOG_THRESHOLD}

InitLog ==
    /\ clock = 0
    /\ peerRecord = <<>>
    /\ clientRecord = [ip \in IPS |-> <<>>]
    /\ banList = [ip \in IPS |-> NoBan]
    /\ globalRequestCount = 0
    /\ socks = [s \in Slots |-> FreeSock]
    /\ swept = [run |-> FALSE, removed |-> {}]
    /\ ticks = 0
    /\ \E size \in FileSizes : logFile = [EmptyLog EXCEPT !.size = size]

NextLog ==
    \E n \in LineLens, dbOk \in BOOLEAN :
        logFile.appends < MaxAppends /\ appendLog(n, dbOk)

SpecLog == InitLog /\ [][NextLog]_vars

(***************************************************************************)
(* Claims                                                                  *)
(***************************************************************************)
\* In this step the connection handler took a new connection into slot s.
Took(s) == IsFree(socks[s]) /\ ~IsFree(socks'[s])

\* The last element of a non-empty sequence.
Last(seq) == seq[Len(seq)]

\* C1 (as claimed): whenever a source's stored window is longer than
\* RATE_LIMIT * 3, a ban entry of that source is set, expiring WINDOW_MS * 10
\* after the attempt that was stored last.
C1_AutoBanEscalation ==
    \A ip \in IPS :
        Len(clientRecord[ip]) > RATE_LIMIT * 3 =>
            banList[ip] = Last(clientRecord[ip]) + WINDOW_MS * 10

\* C5: a connection from a source that is not banned and passes the global
\* guard is answered 2002 and ended, with no listener attached and nothing
\* read, when the pruned window of its source holds RATE_LIMIT timestamps or
\* more, and is admitted when it holds fewer; its timestamp is appended to the
\* pruned window either way.
C5_RateLimit ==
    [][\A s \in Slots :
          LET sk == socks'[s]
              ip == sk.ip
              kept == SelectSeq(clientRecord[ip], LAMBDA ts : clock - ts < WINDOW_MS)
          IN  (/\ Took(s)
               /\ ip # NoIP
               /\ banList[ip] <= clock
               /\ globalRequestCount + 1 <= MAX_CONN_PER_SECOND)
              => /\ clientRecord'[ip] = Append(kept, clock)
                 /\ IF Len(kept) >= RATE_LIMIT
                    THEN /\ sk.lastWrite.statusCode = ERROR_RATE_LIMIT
                         /\ sk.written = 1
                         /\ sk.state = "ended"
                         /\ ~sk.listening /\ sk.idleAt = NoTimer
                         /\ sk.dataLen = 0 /\ sk.handlers = <<>>
                    ELSE /\ sk.state = "open"
                         /\ sk.listening
                         /\ sk.written = 0
      ]_vars

\* The sixth request of a window was answered 2002 and is stored.
C5_Witness ==
    \E s \in Slots :
        /\ socks[s].lastWrite.statusCode = ERROR_RATE_LIMIT
        /\ Len(clientRecord[socks[s].ip]) = RATE_LIMIT + 1
        /\ Last(clientRecord[socks[s].ip]) = socks[s].now

\* C6 (as claimed): every stored timestamp of a source is less than WINDOW_MS
\* older than any connection attempt of that source whose socket is still
\* there, the most recent attempt among them.
C6_WindowWithinLatestAttempt ==
    \A s \in Slots :
        (socks[s].state \in {"open", "ended"} /\ socks[s].ip # NoIP) =>
            \A j \in 1 .. Len(clientRecord[socks[s].ip]) :
                socks[s].now - clientRecord[socks[s].ip][j] < WINDOW_MS

\* C6 (amended): every stored timestamp of a source is less than WINDOW_MS
\* older than the timestamp stored last, which is the source's most recent
\* attempt that reached the rate limiter.
C6_WindowWithinLatestAccess ==
    \A ip \in IPS :
        \A j \in 1 .. Len(clientRecord[ip]) :
            Last(clientRecord[ip]) - clientRecord[ip][j] < WINDOW_MS

\* A window that was accessed a window's length after the start and kept an
\* entry younger than that.
C6_Witness ==
    \E ip \in IPS :
        /\ Len(clientRecord[ip]) >= 2
        /\ Last(clientRecord[ip]) >= WINDOW_MS
        /\ clientRecord[ip][1] < Last(clientRecord[ip])

\* C7: a connection that is not banned adds one to the global counter; it is
\* answered 2003 and ended, its source's window untouched, exactly when the
\* counter then exceeds MAX_CONN_PER_SECOND, and reaches the rate limiter
\* otherwise; a banned one leaves the counter alone; every other step leaves
\* the counter, resets it to zero, or counts connections of other sources.
C7_GlobalAdmission ==
    [][/\ \A s \in Slots :
            LET sk == socks'[s]
                ip == sk.ip
                dropped == IF ip = NoIP THEN TRUE ELSE banList[ip] > clock
            IN  Took(s) =>
                  IF dropped
                  THEN globalRequestCount' = globalRequestCount
                  ELSE /\ globalRequestCount' = globalRequestCount + 1
                       /\ (globalRequestCount' > MAX_CONN_PER_SECOND)
                            <=> (sk.lastWrite.statusCode = ERROR_GLOBAL_DOS)
                       /\ IF globalRequestCount' > MAX_CONN_PER_SECOND
                          THEN /\ sk.written = 1 /\ sk.state = "ended"
                               /\ ~sk.listening
                               /\ clientRecord' = clientRecord
                          ELSE /\ globalRequestCount' <= MAX_CONN_PER_SECOND
                               /\ clientRecord'[ip] # clientRecord[ip]
       /\ (\A s \in Slots : ~Took(s)) =>
            \/ globalRequestCount' = globalRequestCount
            \/ globalRequestCount' = 0
            \/ \E k \in OtherBursts : globalRequestCount' = globalRequestCount + k
      ]_vars

\* The connection that took the counter past the limit was answered 2003.
C7_Witness ==
    \E s \in Slots :
        /\ socks[s].lastWrite.statusCode = ERROR_GLOBAL_DOS
        /\ socks[s].ip # NoIP
        /\ globalRequestCount = MAX_CONN_PER_SECOND + 1

\* C2: no connection is sent more than one response, and an admitted
\* connection whose socket the tracker has ended or lost was sent exactly one.
C2_ExactlyOneResponse ==
    \A s \in Slots :
        /\ socks[s].written <= 1
        /\ (socks[s].listening /\ socks[s].state \in {"ended", "destroyed"})
              => socks[s].written = 1

\* An admitted connection got its one response although a second handler
\* tried to answer it again.
C2_Witness ==
    \E s \in Slots :
        /\ socks[s].listening
        /\ socks[s].chunks = 2
        /\ socks[s].written = 1
        /\ socks[s].lateWrites >= 1

\* The tracker has already answered and ended the connection in slot s.
Terminal(sk) == sk.state \in {"ended", "destroyed"} /\ sk.written >= 1 /\ ~IsFree(sk)

\* C3 (as claimed): once a connection has had its response and its socket was
\* ended, no step of that connection attempts another write to the socket or
\* changes the peer registry.
C3_NothingAfterTerminal ==
    [][\A s \in Slots :
          Terminal(socks[s]) =>
              /\ socks'[s].lateWrites = socks[s].lateWrites
              /\ (socks'[s] # socks[s] => peerRecord' = peerRecord)
      ]_vars

\* C8 (as claimed): the chunk that takes the buffered data past 2048
\* characters is answered 2004 and the socket ended, and from then on no
\* payload handler of that connection runs and the registry is not changed
\* on its behalf.
C8_OversizedNeverParsed ==
    [][\A s \in Slots :
          /\ (socks[s].dataLen <= MAX_PAYLOAD /\ socks'[s].dataLen > MAX_PAYLOAD)
                => /\ socks'[s].lastWrite.statusCode = ERROR_PAYLOAD_TOO_LARGE
                   /\ socks'[s].state # "open"
          /\ (socks[s].dataLen > MAX_PAYLOAD /\ ~IsFree(socks[s]))
                => /\ Len(socks'[s].handlers) >= Len(socks[s].handlers)
                   /\ (socks'[s] # socks[s] => peerRecord' = peerRecord)
      ]_vars

\* The number of handlers of a connection that wait for the geo lookup.
GeoCount(sk) == Cardinality({i \in 1 .. Len(sk.handlers) : sk.handlers[i].pc = "geo"})

\* C9: when the geo lookup of a register request yields no coordinates, the
\* response carries 2006 and the peer registry is left as it was.
C9_GeoFailureNoMutation ==
    [][\A s \in Slots :
          (GeoCount(socks'[s]) < GeoCount(socks[s]) /\ socks'[s].geo = NoGeo)
              => /\ socks'[s].lastWrite.statusCode = ERROR_GEO_LOOKUP_FAILED
                 /\ peerRecord' = peerRecord
      ]_vars

\* A register request whose lookup failed was answered 2006 and its source
\* has no record.
C9_Witness ==
    \E s \in Slots :
        /\ socks[s].geo = NoGeo
        /\ socks[s].dataMsg = "register"
        /\ socks[s].written = 1
        /\ socks[s].lastWrite.statusCode = ERROR_GEO_LOOKUP_FAILED
        /\ ~Has(peerRecord, socks[s].ip)

\* C4 (as claimed): every peer record has lastSeen >= firstSeen.
C4_LastSeenNotBeforeFirstSeen ==
    \A j \in 1 .. Len(peerRecord) :
        peerRecord[j].lastSeen >= peerRecord[j].firstSeen

\* In this step a register response was written, or its write attempted, on
\* the connection in slot s.
RegisterAnswered(s) ==
    /\ socks'[s].written + socks'[s].lateWrites > socks[s].written + socks[s].lateWrites
    /\ socks'[s].lastWrite.statusCode = SUCCESS_REGISTER

\* C10: a sweep at time T leaves no record with T - lastSeen > PEER_TIMEOUT_MS
\* and leaves the other records as they were, in their order; a register
\* response lists only sources that have a record at that moment; and a
\* source gets a record only by a register request of its own.
C10_Staleness ==
    [][/\ swept' # swept =>
            /\ \A j \in 1 .. Len(peerRecord') :
                   clock - peerRecord'[j].lastSeen <= PEER_TIMEOUT_MS
            /\ peerRecord' = SelectSeq(peerRecord,
                                LAMBDA info : clock - info.lastSeen <= PEER_TIMEOUT_MS)
       /\ \A s \in Slots :
            RegisterAnswered(s) =>
                \A j \in 1 .. Len(socks'[s].lastWrite.peers) :
                    Has(peerRecord', socks'[s].lastWrite.peers[j].ip)
       /\ \A ip \in Keys(peerRecord') \ Keys(peerRecord) :
            \E s \in Slots : socks[s].ip = ip /\ RegisterAnswered(s)
      ]_vars

\* The last sweep removed the record of a source, and a connection made
\* after that was sent a register response that does not list the source.
C10_Witness ==
    /\ swept.removed = {PublicA}
    /\ ~Has(peerRecord, PublicA)
    /\ \E s \in Slots :
           /\ socks[s].now > PEER_TIMEOUT_MS
           /\ socks[s].written = 1
           /\ socks[s].lastWrite.statusCode = SUCCESS_REGISTER
           /\ \A j \in 1 .. Len(socks[s].lastWrite.peers) :
                  socks[s].lastWrite.peers[j].ip # PublicA

\* In this step a payload handler of the connection in slot s, whose buffer
\* parses as the given action, ran to its end.
Dispatched(s, action) ==
    /\ Len(socks'[s].handlers) < Len(socks[s].handlers)
    /\ socks[s].dataMsg = action

\* C11: an unregister is answered 1001 and leaves the registry without the
\* caller's record and otherwise as it was, so it changes nothing when there
\* is no record; a heartbeat of a source without a record is answered 1002 and
\* leaves the registry as it was.
C11_Idempotence ==
    [][\A s \in Slots :
          LET ip == socks[s].ip IN
          /\ Dispatched(s, "unregister") =>
                /\ socks'[s].lastWrite.statusCode = SUCCESS_UNREGISTER
                /\ peerRecord' = SelectSeq(peerRecord, LAMBDA e : e.ip # ip)
                /\ (~Has(peerRecord, ip) => peerRecord' = peerRecord)
          /\ (Dispatched(s, "heartbeat") /\ ~Has(peerRecord, ip)) =>
                /\ socks'[s].lastWrite.statusCode = SUCCESS_HEARTBEAT
                /\ peerRecord' = peerRecord
      ]_vars

\* A heartbeat of a source whose record the last sweep removed was answered
\* 1002 and the source has no record.
C11_Witness ==
    \E s \in Slots :
        /\ socks[s].ip \in swept.removed
        /\ socks[s].dataMsg = "heartbeat"
        /\ socks[s].written = 1
        /\ socks[s].lastWrite.statusCode = SUCCESS_HEARTBEAT
        /\ ~Has(peerRecord, socks[s].ip)

\* The positions of the registry whose record has a usable coordinate.
Eligible(table) ==
    {j \in 1 .. Len(table) : table[j].geo.latitude # 0 /\ table[j].geo.longitude # 0}

\* C12: the peers list of a successful register response is in order of
\* non-decreasing distance from the caller's coordinate, has no entry with a
\* zero latitude or longitude, lists each address once and only addresses that
\* have a record, with the record's coordinate, holds RESPONSE_PEER_LIMIT
\* entries or all usable records when these are fewer, and no usable record
\* left out is nearer than a listed one.
C12_Ranking ==
    [][\A s \in Slots :
          LET peers == socks'[s].lastWrite.peers
              geo == socks'[s].geo
              n == Len(peers)
              usable == Eligible(peerRecord')
          IN  RegisterAnswered(s) =>
                /\ \A j \in 1 .. n - 1 :
                       distance(peers[j], geo) <= distance(peers[j + 1], geo)
                /\ \A j \in 1 .. n :
                       /\ peers[j].latitude # 0 /\ peers[j].longitude # 0
                       /\ Has(peerRecord', peers[j].ip)
                       /\ Get(peerRecord', peers[j].ip).geo =
                             [latitude |-> peers[j].latitude,
                              longitude |-> peers[j].longitude]
                /\ Cardinality({peers[j].ip : j \in 1 .. n}) = n
                /\ n <= RESPONSE_PEER_LIMIT
                /\ n = IF Cardinality(usable) < RESPONSE_PEER_LIMIT
                       THEN Cardinality(usable) ELSE RESPONSE_PEER_LIMIT
                /\ \A k \in usable :
                       (\A j \in 1 .. n : peers[j].ip # peerRecord'[k].ip) =>
                           \A j \in 1 .. n :
                               distance(peers[j], geo)
                                   <= distance(peerRecord'[k].geo, geo)
      ]_vars

\* A register response that was cut to the limit: more usable records than
\* RESPONSE_PEER_LIMIT, some with the dummy coordinate, and listed entries at
\* two different distances.
C12_Witness ==
    \E s \in Slots :
        /\ socks[s].written = 1
        /\ socks[s].lastWrite.statusCode = SUCCESS_REGISTER
        /\ Len(socks[s].lastWrite.peers) = RESPONSE_PEER_LIMIT
        /\ Cardinality(Eligible(peerRecord)) > RESPONSE_PEER_LIMIT
        /\ Cardinality(Eligible(peerRecord)) < Len(peerRecord)
        /\ distance(socks[s].lastWrite.peers[1], socks[s].geo)
              < distance(socks[s].lastWrite.peers[RESPONSE_PEER_LIMIT], socks[s].geo)

\* C13 (as claimed): every successful register response carries the caller's
\* address as yourIP and a peers list whose first entry is the caller's own.
C13_SelfFirst ==
    [][\A s \in Slots :
          RegisterAnswered(s) =>
              /\ socks'[s].lastWrite.yourIP = socks[s].ip
              /\ Len(socks'[s].lastWrite.peers) >= 1
              /\ socks'[s].lastWrite.peers[1].ip = socks[s].ip
      ]_vars

\* C14: a connection dropped by the ban guard is ended without a response and
\* leaves the global counter, the rate windows, the ban table and the registry
\* as they were; one rejected by the global guard leaves the rate windows, the
\* ban table and the registry as they were; one rejected by the rate limiter
\* leaves the ban table and the registry as they were; and no rejected
\* connection has the timeout and data listeners or an idle timer.
C14_GuardShortCircuit ==
    [][\A s \in Slots :
          LET sk == socks'[s]
              ip == sk.ip
              dropped == IF ip = NoIP THEN TRUE ELSE banList[ip] > clock
              overGlobal == ~dropped /\ globalRequestCount + 1 > MAX_CONN_PER_SECOND
              kept == IF ip = NoIP THEN <<>>
                      ELSE SelectSeq(clientRecord[ip], LAMBDA ts : clock - ts < WINDOW_MS)
              overRate == ~dropped /\ ~overGlobal /\ Len(kept) >= RATE_LIMIT
          IN  Took(s) =>
                /\ dropped =>
                      /\ sk.written = 0 /\ sk.lateWrites = 0 /\ sk.state = "ended"
                      /\ globalRequestCount' = globalRequestCount
                      /\ clientRecord' = clientRecord
                      /\ banList' = banList
                /\ overGlobal =>
                      /\ sk.lastWrite.statusCode = ERROR_GLOBAL_DOS
                      /\ clientRecord' = clientRecord
                      /\ banList' = banList
                /\ overRate =>
                      /\ sk.lastWrite.statusCode = ERROR_RATE_LIMIT
                      /\ banList' = banList
                /\ (dropped \/ overGlobal \/ overRate) =>
                      /\ ~sk.listening /\ sk.idleAt = NoTimer
                      /\ sk.dataLen = 0 /\ sk.handlers = <<>>
                      /\ peerRecord' = peerRecord
      ]_vars

\* A connection rejected by the global guard a window's length after the
\* stored attempts of its source, which are still stored, next to a
\* connection that was dropped without a response.
C14_Witness ==
    \E s, t \in Slots :
        /\ socks[s].lastWrite.statusCode = ERROR_GLOBAL_DOS
        /\ socks[s].ip = PublicA
        /\ clientRecord[PublicA] # <<>>
        /\ socks[s].now - clientRecord[PublicA][1] >= WINDOW_MS
        /\ socks[t].ip = NoIP /\ socks[t].state = "ended" /\ socks[t].written = 0

\* C15: every connection that was admitted, its listeners attached, is
\* eventually ended by the server, provided that timers fire, geo requests
\* settle and time passes.
C15_EventuallyClosed ==
    \A s \in Slots :
        (socks[s].listening /\ socks[s].state = "open")
            ~> (socks[s].state # "open")

\* An admitted connection whose register request waited for the geo lookup
\* was answered and ended.
C15_Witness ==
    \E s \in Slots :
        /\ socks[s].listening
        /\ socks[s].state = "ended"
        /\ socks[s].geo # NoGeo
        /\ socks[s].written = 1
        /\ clock >= socks[s].now + FLOOD_DELAY

\* C16 (as claimed): a connection that the server has answered or dropped,
\* and ended, has had exactly one log line appended for it.
C16_OneLogLinePerOutcome ==
    \A s \in Slots :
        (socks[s].state = "ended" /\ socks[s].lateWrites = 0)
            => socks[s].logged = 1

\* C18: when a handler comes out of its flood delay with a register action
\* and the source has a record, no geo request is started, the response is
\* 1000, the record keeps its coordinate, its firstSeen and lastSeen both
\* become the time the connection was made, and the other records stay as
\* they were.
C18_ReRegister ==
    [][\A s \in Slots :
          LET ip == socks[s].ip IN
          (/\ socks[s].dataMsg = "register"
           /\ socks[s].handlers # <<>>
           /\ \A i \in 1 .. Len(socks[s].handlers) : socks[s].handlers[i].pc = "delay"
           /\ socks'[s].handlers # socks[s].handlers
           /\ Has(peerRecord, ip))
          => /\ GeoCount(socks'[s]) = 0
             /\ Len(socks'[s].handlers) < Len(socks[s].handlers)
             /\ socks'[s].lastWrite.statusCode = SUCCESS_REGISTER
             /\ Has(peerRecord', ip)
             /\ Get(peerRecord', ip).geo = Get(peerRecord, ip).geo
             /\ Get(peerRecord', ip).firstSeen = socks[s].now
             /\ Get(peerRecord', ip).lastSeen = socks[s].now
             /\ Len(peerRecord') = Len(peerRecord)
             /\ \A j \in 1 .. Len(peerRecord) :
                    peerRecord[j].ip # ip => peerRecord'[j] = peerRecord[j]
      ]_vars

\* Two connections of the private source were both answered 1000, the later
\* one last: the record has the dummy coordinate and the later connection's
\* time as firstSeen.
C18_Witness ==
    \E s, t \in Slots :
        /\ socks[s].ip = PrivateC /\ socks[t].ip = PrivateC
        /\ socks[s].now < socks[t].now
        /\ socks[s].written = 1 /\ socks[s].lastWrite.statusCode = SUCCESS_REGISTER
        /\ socks[t].written = 1 /\ socks[t].lastWrite.statusCode = SUCCESS_REGISTER
        /\ Has(peerRecord, PrivateC)
        /\ Get(peerRecord, PrivateC).geo = DummyGeo
        /\ Get(peerRecord, PrivateC).firstSeen = socks[t].now
        /\ Get(peerRecord, PrivateC).lastSeen = socks[t].now

\* C19 (as claimed): the lastSeen of a record that stays in the registry
\* never decreases.
C19_LastSeenMonotone ==
    [][\A ip \in Keys(peerRecord) \cap Keys(peerRecord') :
          Get(peerRecord', ip).lastSeen >= Get(peerRecord, ip).lastSeen
      ]_vars

\* C20 (as claimed): at most one register, unregister or heartbeat action is
\* applied for a connection.
C20_AtMostOneAction ==
    \A s \in Slots : socks[s].dispatched <= 1

\* C17 (as claimed): no log content is removed from the local file without
\* having been stored.
C17_NothingDiscarded ==
    logFile.lost = 0

====
